---- MODULE Spec2Model ----
(***************************************************************************)
(* Model of the restaurant backend bootstrap (server.js, in its two        *)
(* variants: cookie sessions and JWT): the CORS origin callback, the       *)
(* middleware chain with its two rate limiters, the 404 fallback, the      *)
(* central error translator, the rolling session, and graceful shutdown.   *)
(* Strings that the code inspects character by character (origins, the     *)
(* ALLOWED_ORIGINS value) are sequences of one-character strings.          *)
(***************************************************************************)
EXTENDS Integers, Sequences, FiniteSets, TLC

VARIABLES
  variant,            \* "session" (server.js) or "jwt" (the JWT server.js)
  nodeEnv,            \* process.env.NODE_ENV ("unset" when not defined)
  allowedOriginsEnv,  \* process.env.ALLOWED_ORIGINS (Undefined when not defined)
  corsCallback,       \* what the cors origin function passed to its callback
  globalHits,         \* globalLimiter's store: client -> hits in the window
  authHits,           \* authLimiter's store: client -> hits in the window
  authInflight,       \* the /auth requests handed to authRoutes and not yet answered
  authFailed,         \* per client: /auth requests past authLimiter answered with status >= 400
  authRejected,       \* per client: /auth requests answered 429 by authLimiter
  preflights,         \* per client: OPTIONS requests answered in the window
  sessionRow,         \* sessions table: <<>> or <<expire>> (hours) of the user's session
  lastTouch,          \* hour at which the session row was last saved or touched
  now,                \* wall clock of the request pipeline, in hours
  last,               \* the most recent response sent
  handle,             \* server._handle: TRUE while the listener accepts connections
  connections,        \* open connections (requests in flight)
  closeCallbacks,     \* once('close') callbacks registered by server.close
  closeEmitted,       \* times the server emitted 'close'
  serverCloseCalls,   \* calls of server.close
  poolState,          \* "open", "ending" (pool.end running) or "ended"
  poolEndCalls,       \* calls of pool.end
  poolEndLog,         \* state seen by each pool.end call, in order
  timers,             \* expiry times (ms) of the pending setTimeout timers
  clock,              \* process clock, in ms
  firstTrigger,       \* clock value at the first gracefulShutdown call, or Never
  exitCode,           \* Running, or the code passed to process.exit
  exitClock,          \* clock value at process.exit
  faults              \* kinds of uncaught faults raised so far

configVars == <<variant, nodeEnv, allowedOriginsEnv>>
corsVars == <<corsCallback>>
httpVars == <<globalHits, authHits, authInflight, authFailed, authRejected, preflights,
              sessionRow, lastTouch, now, last>>
shutdownVars == <<handle, connections, closeCallbacks, closeEmitted, serverCloseCalls,
                  poolState, poolEndCalls, poolEndLog, timers, clock, firstTrigger,
                  exitCode, exitClock, faults>>
vars == <<configVars, corsVars, httpVars, shutdownVars>>

----------------------------------------------------------------------------
(* JavaScript values *)

\* undefined: a missing header, an unset environment variable, a missing field
Undefined == <<"undefined">>

\* !x for x undefined or a string: undefined and "" are falsy
Falsy(x) == x = Undefined \/ x = <<>>

Digits == {"0", "1", "2", "3", "4", "5", "6", "7", "8", "9"}

\* characters "." does not match in a JavaScript regular expression
LineTerminators == {"\n", "\r"}

\* String.prototype.trim strips these from both ends
WhiteSpace == {" ", "\t", "\n", "\r"}

StartsWith(s, p) == Len(s) >= Len(p) /\ SubSeq(s, 1, Len(p)) = p

EndsWith(s, p) == Len(s) >= Len(p) /\ SubSeq(s, Len(s) - Len(p) + 1, Len(s)) = p

RECURSIVE TrimStart(_)
TrimStart(s) ==
  IF s # <<>> /\ Head(s) \in WhiteSpace THEN TrimStart(Tail(s)) ELSE s

RECURSIVE TrimEnd(_)
TrimEnd(s) ==
  IF s # <<>> /\ s[Len(s)] \in WhiteSpace THEN TrimEnd(SubSeq(s, 1, Len(s) - 1)) ELSE s

\* origin.trim()
Trim(s) == TrimEnd(TrimStart(s))

\* s.split(','): the pieces between commas; "" splits to one empty piece
RECURSIVE SplitFrom(_, _, _)
SplitFrom(s, i, piece) ==
  IF i > Len(s) THEN <<piece>>
  ELSE IF s[i] = "," THEN <<piece>> \o SplitFrom(s, i + 1, <<>>)
  ELSE SplitFrom(s, i + 1, Append(piece, s[i]))

Split(s) == SplitFrom(s, 1, <<>>)

\* array.includes(x)
Includes(array, x) == \E i \in 1..Len(array) : array[i] = x

----------------------------------------------------------------------------
(* CORS configuration *)

Variants == {"session", "jwt"}

DefaultOrigins(v) ==
  IF v = "session"
  THEN << <<"h", "t", "t", "p", ":", "/", "/", "l", "o", "c", "a", "l", "h", "o", "s", "t", ":", "3", "0", "0", "0">>,
          <<"h", "t", "t", "p", ":", "/", "/", "l", "o", "c", "a", "l", "h", "o", "s", "t", ":", "3", "0", "0", "1">>,
          <<"h", "t", "t", "p", ":", "/", "/", "l", "o", "c", "a", "l", "h", "o", "s", "t", ":", "5", "1", "7", "3">> >>
  ELSE << <<"h", "t", "t", "p", ":", "/", "/", "l", "o", "c", "a", "l", "h", "o", "s", "t", ":", "3", "0", "0", "0">> >>

\* process.env.ALLOWED_ORIGINS ? value.split(',').map(trim) : default list
AllowedOrigins(v, env) ==
  IF ~Falsy(env)
  THEN [i \in 1..Len(Split(env)) |-> Trim(Split(env)[i])]
  ELSE DefaultOrigins(v)

VercelPrefix(v) ==
  IF v = "session" THEN <<"h", "t", "t", "p", "s", ":", "/", "/", "r", "e", "s", "t", "a", "u", "r", "a", "n", "t", "-", "f", "r", "o", "n", "t", "e", "n", "d">>
  ELSE <<"h", "t", "t", "p", "s", ":", "/", "/", "r", "e", "s", "t", "a", "u", "r", "a", "n", "t", "-", "t", "e", "s", "t", "-", "f", "r", "o", "n", "t", "e", "n", "d">>

VercelSuffix == <<".", "v", "e", "r", "c", "e", "l", ".", "a", "p", "p">>

LocalhostPrefix == <<"h", "t", "t", "p", ":", "/", "/", "l", "o", "c", "a", "l", "h", "o", "s", "t", ":">>

LoopbackPrefix == <<"h", "t", "t", "p", ":", "/", "/", "1", "2", "7", ".", "0", ".", "0", ".", "1", ":">>

\* /^<prefix>.*\.vercel\.app$/.test(s)
MatchesVercel(v, s) ==
  /\ Len(s) >= Len(VercelPrefix(v)) + Len(VercelSuffix)
  /\ StartsWith(s, VercelPrefix(v))
  /\ EndsWith(s, VercelSuffix)
  /\ \A i \in (Len(VercelPrefix(v)) + 1)..(Len(s) - Len(VercelSuffix)) :
        s[i] \notin LineTerminators

\* /^<prefix>\d+$/.test(s)
MatchesPort(prefix, s) ==
  /\ Len(s) > Len(prefix)
  /\ StartsWith(s, prefix)
  /\ \A i \in (Len(prefix) + 1)..Len(s) : s[i] \in Digits

\* allowedPatterns.some(pattern => pattern.test(origin))
MatchesPattern(v, s) ==
  \/ MatchesVercel(v, s)
  \/ MatchesPort(LocalhostPrefix, s)
  \/ MatchesPort(LoopbackPrefix, s)

\* The cors origin function: the arguments it passes to callback(err, allow)
CorsOrigin(v, env, origin) ==
  IF Falsy(origin) THEN [err |-> "null", allow |-> TRUE]
  ELSE IF Includes(AllowedOrigins(v, env), origin) THEN [err |-> "null", allow |-> TRUE]
  ELSE IF MatchesPattern(v, origin) THEN [err |-> "null", allow |-> TRUE]
  ELSE [err |-> "null", allow |-> FALSE]

\* The condition of the explicit app.options('*') handler
OptionsAllows(v, env, origin) ==
  \/ Falsy(origin)
  \/ Includes(AllowedOrigins(v, env), origin)
  \/ MatchesPattern(v, origin)

----------------------------------------------------------------------------
(* Inputs of the CORS check *)

AppOrigin == <<"h", "t", "t", "p", "s", ":", "/", "/", "a", "p", "p", ".", "e", "x", "a", "m", "p", "l", "e", ".", "c", "o", "m">>

\* Values of ALLOWED_ORIGINS: unset, empty, a padded list, a list with an empty entry
EnvValues ==
  { Undefined,
    <<>>,
    <<" ", "h", "t", "t", "p", "s", ":", "/", "/", "a", "p", "p", ".", "e", "x", "a", "m", "p", "l", "e", ".", "c", "o", "m", " ", ",", " ", "h", "t", "t", "p", "s", ":", "/", "/", "a", "d", "m", "i", "n", ".", "e", "x", "a", "m", "p", "l", "e", ".", "c", "o", "m">>,
    <<"h", "t", "t", "p", "s", ":", "/", "/", "a", "p", "p", ".", "e", "x", "a", "m", "p", "l", "e", ".", "c", "o", "m", ",", ",", "h", "t", "t", "p", "s", ":", "/", "/", "r", "e", "s", "t", "a", "u", "r", "a", "n", "t", "-", "f", "r", "o", "n", "t", "e", "n", "d", ".", "e", "x", "a", "m", "p", "l", "e", ".", "o", "r", "g">> }

HostSuffixes ==
  { <<>>, <<"-", "g", "i", "t", "-", "m", "a", "i", "n">>, <<".", "e", "v", "i", "l", ".", "c", "o", "m", "/">>, <<"x">> }

PortTexts == { <<>>, <<"3", "0", "0", "0">>, <<"3", "0", "0", "1">>, <<"8", "0", "a">>, <<" ", "8", "0">> }

\* Origin header values: absent, empty, and strings around every branch of the check
Origins ==
  { Undefined, <<>>, AppOrigin, <<" ">> \o AppOrigin, AppOrigin \o <<"/">>,
    <<"h", "t", "t", "p", "s", ":", "/", "/", "a", "d", "m", "i", "n", ".", "e", "x", "a", "m", "p", "l", "e", ".", "c", "o", "m">>, <<"h", "t", "t", "p", "s", ":", "/", "/", "r", "e", "s", "t", "a", "u", "r", "a", "n", "t", "-", "f", "r", "o", "n", "t", "e", "n", "d", ".", "e", "x", "a", "m", "p", "l", "e", ".", "o", "r", "g">>,
    <<"h", "t", "t", "p", "s", ":", "/", "/", "l", "o", "c", "a", "l", "h", "o", "s", "t", ":", "3", "0", "0", "0">>, <<"h", "t", "t", "p", ":", "/", "/", "1", "2", "7", "a", "0", "b", "0", "c", "1", ":", "8", "0", "8", "0">> }
  \cup { LocalhostPrefix \o p : p \in PortTexts }
  \cup { LoopbackPrefix \o p : p \in PortTexts }
  \cup { VercelPrefix(v) \o h \o VercelSuffix : v \in Variants, h \in HostSuffixes }
  \cup { VercelPrefix(v) \o <<"x", "v", "e", "r", "c", "e", "l", ".", "a", "p", "p">> : v \in Variants }
  \cup { VercelPrefix(v) \o VercelSuffix \o <<".", "e", "v", "i", "l", ".", "c", "o", "m">> : v \in Variants }

----------------------------------------------------------------------------
(* Rate limiters (express-rate-limit, one window) *)

\* globalLimiter: max
GlobalMax == 100

\* authLimiter: max
AuthMax == 10

GlobalMessage(v) ==
  IF v = "session"
  THEN "Trop de requêtes depuis cette IP, veuillez réessayer plus tard."
  ELSE "Trop de requêtes"

AuthMessage(v) ==
  IF v = "session"
  THEN "Trop de tentatives de connexion, veuillez réessayer dans 15 minutes."
  ELSE "Trop de tentatives de connexion"

\* Mutation: the limiter rejects the request that reaches max
GlobalLimiterRejectsAtMax(totalHits) == totalHits >= GlobalMax

\* A limiter increments the client's hits, then rejects when the total exceeds max
GlobalLimiterRejects(totalHits) == totalHits > GlobalMax

\* Mutation: the limiter rejects the request that reaches max
AuthLimiterRejectsAtMax(totalHits) == totalHits >= AuthMax

AuthLimiterRejects(totalHits) == totalHits > AuthMax

\* skipSuccessfulRequests: when the response finishes, a hit is given back if
\* the request was successful (statusCode < 400)
SkipsRequest(status) == status < 400

----------------------------------------------------------------------------
(* Routes *)

\* A path is the sequence of its segments: "/auth/login" is <<"auth", "login">>
RootPath == <<>>

\* app.get routes
DirectPaths(v) ==
  IF v = "session" THEN {RootPath, <<"health">>}
  ELSE {RootPath, <<"health">>, <<"test-jwt">>}

\* app.use(prefix, router) route groups
Groups(v) ==
  {"auth", "settings", "users", "reservations", "menus", "dashboard"}
  \cup (IF v = "jwt" THEN {"categories", "dishes", "favorites"} ELSE {})

InGroup(v, p) == Len(p) >= 1 /\ p[1] \in Groups(v)

IsAuthPath(p) == Len(p) >= 1 /\ p[1] = "auth"

\* The path matches a mounted route or route group
PathMounted(v, p) == p \in DirectPaths(v) \/ InGroup(v, p)

\* Mutation: the body echoes req.baseUrl, which is empty at the application level
NotFoundBodyEchoingBaseUrl(v, m, p) ==
  IF v = "session"
  THEN [error |-> "Route non trouvée", path |-> RootPath, method |-> m, availableRoutes |-> TRUE]
  ELSE [error |-> "Route non trouvée", path |-> RootPath, method |-> m]

\* The 404 middleware's JSON body
NotFoundBody(v, m, p) ==
  IF v = "session"
  THEN [error |-> "Route non trouvée", path |-> p, method |-> m, availableRoutes |-> TRUE]
  ELSE [error |-> "Route non trouvée", path |-> p, method |-> m]

----------------------------------------------------------------------------
(* Central error middleware *)

NodeEnvs == {"production", "development", "test", "unset"}

\* err.status || 500: a missing or zero status gives 500
ErrorStatus(err) ==
  IF "status" \in DOMAIN err /\ err.status # 0 THEN err.status ELSE 500

\* NODE_ENV === 'production' ? 'Erreur serveur interne' : err.message
ErrorMessage(env, err) ==
  IF env = "production" THEN [error |-> "Erreur serveur interne"]
  ELSE IF "message" \in DOMAIN err THEN [error |-> err.message]
  ELSE <<>>

\* Mutation: the stack is left out in production only
ErrorDetailsOutsideProduction(env, err) ==
  IF env # "production"
  THEN (IF "stack" \in DOMAIN err THEN [stack |-> err.stack] ELSE <<>>)
       @@ [details |-> "err.toString()"]
  ELSE <<>>

\* ...(NODE_ENV === 'development' && { stack: err.stack, details: err.toString() })
ErrorDetails(env, err) ==
  IF env = "development"
  THEN (IF "stack" \in DOMAIN err THEN [stack |-> err.stack] ELSE <<>>)
       @@ [details |-> "err.toString()"]
  ELSE <<>>

\* The JSON body: keys whose value is undefined are not serialised
ErrorBody(env, err) == ErrorMessage(env, err) @@ ErrorDetails(env, err)

\* An error object: each of status, message and stack may be missing
ErrorObjects ==
  { s @@ m @@ t :
      s \in {<<>>} \cup {[status |-> n] : n \in {0, 400, 404, 503}},
      m \in {<<>>, [message |-> "boom"]},
      t \in {<<>>, [stack |-> "Error: boom\n    at handler"]} }

\* What body-parser passes on for a malformed body
ParseError ==
  [status |-> 400, message |-> "Unexpected token", stack |-> "SyntaxError: Unexpected token"]

\* What the session store passes on when the database fails
StoreError == [message |-> "connection terminated", stack |-> "Error: connection terminated"]

----------------------------------------------------------------------------
(* Session (express-session with connect-pg-simple), session variant *)

\* cookie.maxAge = 24 * 60 * 60 * 1000 ms, in hours
CookieMaxAgeHours == 24

\* store.get finds the row only while expire >= now
SessionLoaded(cookie) ==
  /\ variant = "session"
  /\ cookie
  /\ sessionRow # <<>>
  /\ sessionRow[1] >= now

\* Mutation: without rolling, a session keeps the expiry it was created with
ExpireWithoutRolling(t) ==
  IF sessionRow # <<>> THEN sessionRow[1] ELSE t + CookieMaxAgeHours

\* rolling: the expiry is set again from maxAge when the response ends
RollingExpire(t) == t + CookieMaxAgeHours

\* The session row after a response that passed the session middleware:
\* a login saves the modified session, a logout destroys it, and any other
\* response touches the session that was loaded
SessionAfter(cookie, out) ==
  IF variant # "session" THEN sessionRow
  ELSE IF out = "login" THEN <<RollingExpire(now)>>
  ELSE IF out = "logout" THEN (IF SessionLoaded(cookie) THEN <<>> ELSE sessionRow)
  ELSE IF SessionLoaded(cookie) THEN <<RollingExpire(now)>>
  ELSE sessionRow

TouchAfter(cookie, out) ==
  IF variant = "session" /\ (out = "login" \/ (SessionLoaded(cookie) /\ out # "logout"))
  THEN now ELSE lastTouch

----------------------------------------------------------------------------
(* The middleware chain *)

Clients == {"c1", "c2"}

\* Most /auth requests in flight at once, over all clients
MaxInflight == 2

\* authLimiter hits are followed up to this count
MaxAuthHits == 12

InflightCount(c) ==
  Cardinality({i \in 1..Len(authInflight) : authInflight[i].client = c})

InflightTotal == Len(authInflight)

\* The sequence without its i-th element
RemoveAt(seq, i) == SubSeq(seq, 1, i - 1) \o SubSeq(seq, i + 1, Len(seq))

\* Errors the route collaborators pass to next(err)
RouteErrors ==
  { [message |-> "boom", stack |-> "Error: boom\n    at handler"],
    [status |-> 404, message |-> "boom"] }

\* What a route collaborator does with a request
RouteOutcomes ==
  { [kind |-> "ok"], [kind |-> "fail"], [kind |-> "next"] }
  \cup { [kind |-> "error", err |-> e] : e \in RouteErrors }

\* What authRoutes may do besides: open the session, or destroy it
AuthOutcomes == RouteOutcomes \cup { [kind |-> "login"], [kind |-> "logout"] }

\* The error middleware's response
ErrorResponse(env, err) ==
  [stage |-> "error", status |-> ErrorStatus(err), body |-> ErrorBody(env, err)]

\* The 404 middleware's response
NotFoundResponse(v, m, p) ==
  [stage |-> "notFound", status |-> 404, body |-> NotFoundBody(v, m, p)]

\* The response when a route collaborator handles the request
RouteResponse(v, env, m, p, out) ==
  IF out.kind = "error" THEN ErrorResponse(env, out.err)
  ELSE IF out.kind = "next" THEN NotFoundResponse(v, m, p)
  ELSE IF out.kind = "fail" THEN [stage |-> "route", status |-> 401, body |-> [error |-> "refused"]]
  ELSE [stage |-> "route", status |-> 200, body |-> [status |-> "OK"]]

\* Route dispatch for a request outside /auth: the responses it can end in
DispatchResponses(v, env, m, p) ==
  IF m = "GET" /\ p \in {RootPath, <<"health">>}
  THEN { [stage |-> "route", status |-> 200, body |-> [status |-> "OK"]] }
  ELSE IF m = "GET" /\ p \in DirectPaths(v)
  THEN { RouteResponse(v, env, m, p, out) : out \in RouteOutcomes \ {[kind |-> "next"]} }
  ELSE IF InGroup(v, p)
  THEN { RouteResponse(v, env, m, p, out) : out \in RouteOutcomes }
  ELSE { NotFoundResponse(v, m, p) }

GlobalLimitResponse(v) ==
  [stage |-> "globalLimiter", status |-> 429, body |-> [text |-> GlobalMessage(v)]]

AuthLimitResponse(v) ==
  [stage |-> "authLimiter", status |-> 429, body |-> [text |-> AuthMessage(v)]]

\* Admitted by authLimiter and handed to authRoutes: no response yet
Pending == [stage |-> "pending"]

\* The ways the chain can go for a request that is not a preflight
ChainResponses(c, m, p, fault) ==
  IF GlobalLimiterRejects(globalHits[c] + 1) THEN { GlobalLimitResponse(variant) }
  ELSE IF fault = "body" THEN { ErrorResponse(nodeEnv, ParseError) }
  ELSE IF fault = "store" /\ variant = "session" THEN { ErrorResponse(nodeEnv, StoreError) }
  ELSE IF IsAuthPath(p)
  THEN (IF AuthLimiterRejects(authHits[c] + 1) THEN { AuthLimitResponse(variant) } ELSE { Pending })
  ELSE DispatchResponses(variant, nodeEnv, m, p)

\* The request got as far as the session middleware and past it
PastSession(resp, fault) ==
  /\ resp.stage # "globalLimiter"
  /\ fault = "none" \/ (fault = "store" /\ variant # "session")

\* The four headers the explicit app.options('*') handler sets
AllowHeaderNames ==
  { "Access-Control-Allow-Origin", "Access-Control-Allow-Methods",
    "Access-Control-Allow-Headers", "Access-Control-Allow-Credentials" }

NoHeaders == [names |-> {}, allowOrigin |-> Undefined]

\* The headers cors puts on the preflight of an allowed origin: the request's
\* origin is reflected in Access-Control-Allow-Origin, and a header whose
\* value is falsy (the origin is missing or empty) is not set; credentials,
\* methods, allowedHeaders, maxAge and exposedHeaders come from the options
CorsPreflightHeaders(origin) ==
  [names |-> (IF Falsy(origin) THEN {} ELSE {"Access-Control-Allow-Origin"})
             \cup { "Vary", "Access-Control-Allow-Credentials",
                    "Access-Control-Allow-Methods", "Access-Control-Allow-Headers",
                    "Access-Control-Max-Age", "Access-Control-Expose-Headers" },
   allowOrigin |-> IF Falsy(origin) THEN Undefined ELSE origin]

\* The headers of the explicit app.options('*') handler: origin || '*'
OptionsHeaders(v, env, origin) ==
  IF OptionsAllows(v, env, origin)
  THEN [names |-> AllowHeaderNames,
        allowOrigin |-> IF Falsy(origin) THEN <<"*">> ELSE origin]
  ELSE NoHeaders

\* An OPTIONS request: answered by cors when the origin is allowed, and by the
\* explicit app.options('*') handler when cors passed it on
Preflight(c, p, origin) ==
  LET allow == CorsOrigin(variant, allowedOriginsEnv, origin).allow IN
  /\ preflights' = [preflights EXCEPT ![c] = @ + 1]
  /\ last' = [client |-> c, method |-> "OPTIONS", path |-> p, at |-> now,
              nth |-> globalHits[c] + preflights[c] + 1,
              fault |-> "none", cookie |-> FALSE,
              stage |-> IF allow THEN "cors" ELSE "options",
              status |-> 204, body |-> <<>>,
              origin |-> origin,
              headers |-> IF allow THEN CorsPreflightHeaders(origin)
                          ELSE OptionsHeaders(variant, allowedOriginsEnv, origin),
              allowHeaders |-> IF allow THEN TRUE
                               ELSE OptionsAllows(variant, allowedOriginsEnv, origin),
              authenticated |-> FALSE, hadSession |-> sessionRow # <<>>,
              idle |-> now - lastTouch]
  /\ UNCHANGED <<globalHits, authHits, authInflight, authFailed, authRejected,
                 sessionRow, lastTouch, now>>
  /\ UNCHANGED <<configVars, corsVars, shutdownVars>>

\* Any other request, from the cors middleware to the response (or, for an
\* /auth request admitted by authLimiter, to the hand-over to authRoutes)
Request(c, m, p, origin, cookie, fault) ==
  LET allow == CorsOrigin(variant, allowedOriginsEnv, origin).allow IN
  \E resp \in ChainResponses(c, m, p, fault) :
    LET past == PastSession(resp, fault)
        atAuth == past /\ IsAuthPath(p)
        req == [client |-> c, method |-> m, path |-> p, cookie |-> cookie,
                allowHeaders |-> allow]
    IN
    /\ atAuth => authHits[c] < MaxAuthHits
    /\ resp = Pending => InflightTotal < MaxInflight
    /\ globalHits' = [globalHits EXCEPT ![c] = @ + 1]
    /\ authHits' = IF atAuth THEN [authHits EXCEPT ![c] = @ + 1] ELSE authHits
    /\ authRejected' = IF resp.stage = "authLimiter"
                       THEN [authRejected EXCEPT ![c] = @ + 1] ELSE authRejected
    /\ authInflight' = IF resp = Pending
                       THEN Append(authInflight, req) ELSE authInflight
    /\ sessionRow' = IF past /\ resp # Pending
                     THEN SessionAfter(cookie, "respond") ELSE sessionRow
    /\ lastTouch' = IF past /\ resp # Pending
                    THEN TouchAfter(cookie, "respond") ELSE lastTouch
    /\ last' = IF resp = Pending THEN last
               ELSE [client |-> c, method |-> m, path |-> p, at |-> now,
                     nth |-> globalHits[c] + preflights[c] + 1,
                     nthChain |-> globalHits[c] + 1,
                     fault |-> fault, cookie |-> cookie,
                     allowHeaders |-> allow,
                     authenticated |-> past /\ SessionLoaded(cookie),
                     hadSession |-> sessionRow # <<>>,
                     idle |-> now - lastTouch] @@ resp
    /\ UNCHANGED <<authFailed, preflights, now>>
    /\ UNCHANGED <<configVars, corsVars, shutdownVars>>

\* authRoutes answers an /auth request; authLimiter's 'finish' hook runs
AuthFinish(i, out) ==
  LET r == authInflight[i]
      resp == RouteResponse(variant, nodeEnv, r.method, r.path, out)
      c == r.client
  IN
  /\ authInflight' = RemoveAt(authInflight, i)
  /\ authHits' = IF SkipsRequest(resp.status) /\ authHits[c] > 0
                 THEN [authHits EXCEPT ![c] = @ - 1] ELSE authHits
  /\ authFailed' = IF resp.status >= 400
                   THEN [authFailed EXCEPT ![c] = @ + 1] ELSE authFailed
  /\ sessionRow' = SessionAfter(r.cookie, out.kind)
  /\ lastTouch' = TouchAfter(r.cookie, out.kind)
  /\ last' = [client |-> c, method |-> r.method, path |-> r.path, at |-> now,
              fault |-> "none", cookie |-> r.cookie,
              allowHeaders |-> r.allowHeaders,
              authenticated |-> SessionLoaded(r.cookie),
              hadSession |-> sessionRow # <<>>,
              idle |-> now - lastTouch] @@ resp
  /\ UNCHANGED <<globalHits, authRejected, preflights, now>>
  /\ UNCHANGED <<configVars, corsVars, shutdownVars>>

\* The window (windowMs, 15 minutes) is shorter than a clock step of the
\* session model: when the clock moves, both limiters start a new window
TickHours == 8

MaxNow == 40

Tick ==
  /\ authInflight = <<>>
  /\ now < MaxNow
  /\ now' = now + TickHours
  /\ globalHits' = [c \in Clients |-> 0]
  /\ authHits' = [c \in Clients |-> 0]
  /\ authFailed' = [c \in Clients |-> 0]
  /\ authRejected' = [c \in Clients |-> 0]
  /\ preflights' = [c \in Clients |-> 0]
  /\ UNCHANGED <<authInflight, sessionRow, lastTouch, last>>
  /\ UNCHANGED <<configVars, corsVars, shutdownVars>>

\* The error middleware applied to one error
TranslateError(err) ==
  /\ last' = [err |-> err] @@ ErrorResponse(nodeEnv, err)
  /\ UNCHANGED <<globalHits, authHits, authInflight, authFailed, authRejected,
                 preflights, sessionRow, lastTouch, now>>
  /\ UNCHANGED <<configVars, corsVars, shutdownVars>>

----------------------------------------------------------------------------
(* Graceful shutdown *)

\* setTimeout(..., 10000)
ShutdownTimeoutMs == 10000

\* Clock step, and the time up to which the clock runs with no timer pending
TickMs == 5000

MaxClock == 10000

MaxConnections == 2

\* Most calls of gracefulShutdown followed
MaxTriggers == 3

Alive == exitCode = <<>>

Min(S) == CHOOSE x \in S : \A y \in S : x <= y

\* pool.end(callback) on the process state st: the first call starts closing
\* the pool; a call on a pool that is already ending calls back at once with
\* an error, and the callback exits with code 0
PoolEnd(st) ==
  LET seen == [listening |-> st.handle, connections |-> st.connections] IN
  IF st.poolState = "open"
  THEN [st EXCEPT !.poolState = "ending",
                  !.poolEndCalls = @ + 1,
                  !.poolEndLog = Append(@, seen)]
  ELSE [st EXCEPT !.poolEndCalls = @ + 1,
                  !.poolEndLog = Append(@, seen),
                  !.exitCode = <<0>>]

\* The 'close' event runs the n registered callbacks in order, each calling
\* pool.end, until one of them exits the process
RECURSIVE RunCloseCallbacks(_, _)
RunCloseCallbacks(n, st) ==
  IF n = 0 \/ st.exitCode # <<>> THEN st
  ELSE RunCloseCallbacks(n - 1, PoolEnd(st))

\* server._emitCloseIfDrained: with the listener closed and no connection
\* left, 'close' is emitted on the next tick
EmitCloseIfDrained(st) ==
  IF st.handle \/ st.connections # 0 \/ st.closeCallbacks = 0 THEN st
  ELSE [RunCloseCallbacks(st.closeCallbacks, st) EXCEPT
          !.closeCallbacks = 0, !.closeEmitted = @ + 1]

\* The process state as a record, and back
ProcessState ==
  [handle |-> handle, connections |-> connections, closeCallbacks |-> closeCallbacks,
   closeEmitted |-> closeEmitted, serverCloseCalls |-> serverCloseCalls,
   poolState |-> poolState, poolEndCalls |-> poolEndCalls, poolEndLog |-> poolEndLog,
   timers |-> timers, firstTrigger |-> firstTrigger, exitCode |-> exitCode]

Becomes(st) ==
  /\ handle' = st.handle
  /\ connections' = st.connections
  /\ closeCallbacks' = st.closeCallbacks
  /\ closeEmitted' = st.closeEmitted
  /\ serverCloseCalls' = st.serverCloseCalls
  /\ poolState' = st.poolState
  /\ poolEndCalls' = st.poolEndCalls
  /\ poolEndLog' = st.poolEndLog
  /\ timers' = st.timers
  /\ firstTrigger' = st.firstTrigger
  /\ exitCode' = st.exitCode
  /\ exitClock' = IF st.exitCode # <<>> /\ exitCode = <<>> THEN <<clock>> ELSE exitClock

\* Mutation: each call replaces the pending timer by a new one
ShutdownWithTimerReset(st) ==
  EmitCloseIfDrained(
    [st EXCEPT !.serverCloseCalls = @ + 1,
               !.closeCallbacks = @ + 1,
               !.handle = FALSE,
               !.timers = {clock + ShutdownTimeoutMs},
               !.firstTrigger = IF @ = <<>>
                                THEN <<[clock |-> clock, connections |-> st.connections]>>
                                ELSE @])

\* Mutation: pool.end is called beside server.close, not in its callback
ShutdownEndingPoolAtOnce(st) ==
  PoolEnd([st EXCEPT !.serverCloseCalls = @ + 1,
                     !.handle = FALSE,
                     !.timers = @ \cup {clock + ShutdownTimeoutMs},
                     !.firstTrigger = IF @ = <<>>
                                      THEN <<[clock |-> clock, connections |-> st.connections]>>
                                      ELSE @])

\* gracefulShutdown: server.close(callback) stops the listener and registers
\* the callback; setTimeout arms a new timer; nothing is cancelled
GracefulShutdown(st) ==
  EmitCloseIfDrained(
    [st EXCEPT !.serverCloseCalls = @ + 1,
               !.closeCallbacks = @ + 1,
               !.handle = FALSE,
               !.timers = @ \cup {clock + ShutdownTimeoutMs},
               !.firstTrigger = IF @ = <<>>
                                THEN <<[clock |-> clock, connections |-> st.connections]>>
                                ELSE @])

\* A connection is accepted and its request starts
Accept ==
  /\ Alive
  /\ handle
  /\ connections < MaxConnections
  /\ connections' = connections + 1
  /\ UNCHANGED <<handle, closeCallbacks, closeEmitted, serverCloseCalls, poolState,
                 poolEndCalls, poolEndLog, timers, clock, firstTrigger, exitCode,
                 exitClock, faults>>
  /\ UNCHANGED <<configVars, corsVars, httpVars>>

\* A request completes and its connection closes
Complete ==
  /\ Alive
  /\ connections > 0
  /\ Becomes(EmitCloseIfDrained([ProcessState EXCEPT !.connections = @ - 1]))
  /\ UNCHANGED <<clock, faults>>
  /\ UNCHANGED <<configVars, corsVars, httpVars>>

\* process.on('SIGTERM', gracefulShutdown), process.on('SIGINT', gracefulShutdown)
Signal(sig) ==
  /\ Alive
  /\ serverCloseCalls < MaxTriggers
  /\ Becomes(GracefulShutdown(ProcessState))
  /\ UNCHANGED <<clock, faults>>
  /\ UNCHANGED <<configVars, corsVars, httpVars>>

\* Mutation: the handler logs and nothing else
UncaughtExceptionLogOnly ==
  /\ Alive
  /\ serverCloseCalls < MaxTriggers
  /\ faults' = faults \cup {"uncaughtException"}
  /\ UNCHANGED <<handle, connections, closeCallbacks, closeEmitted, serverCloseCalls,
                 poolState, poolEndCalls, poolEndLog, timers, clock, firstTrigger,
                 exitCode, exitClock>>
  /\ UNCHANGED <<configVars, corsVars, httpVars>>

\* process.on('uncaughtException'): logs, then gracefulShutdown()
UncaughtException ==
  /\ Alive
  /\ serverCloseCalls < MaxTriggers
  /\ faults' = faults \cup {"uncaughtException"}
  /\ Becomes(GracefulShutdown(ProcessState))
  /\ UNCHANGED clock
  /\ UNCHANGED <<configVars, corsVars, httpVars>>

\* process.on('unhandledRejection'): logs, and nothing else
UnhandledRejection ==
  /\ Alive
  /\ faults' = faults \cup {"unhandledRejection"}
  /\ UNCHANGED <<handle, connections, closeCallbacks, closeEmitted, serverCloseCalls,
                 poolState, poolEndCalls, poolEndLog, timers, clock, firstTrigger,
                 exitCode, exitClock>>
  /\ UNCHANGED <<configVars, corsVars, httpVars>>

\* pool.end finishes: its callback logs and calls process.exit(0)
PoolEnded ==
  /\ Alive
  /\ poolState = "ending"
  /\ poolState' = "ended"
  /\ exitCode' = <<0>>
  /\ exitClock' = <<clock>>
  /\ UNCHANGED <<handle, connections, closeCallbacks, closeEmitted, serverCloseCalls,
                 poolEndCalls, poolEndLog, timers, clock, firstTrigger, faults>>
  /\ UNCHANGED <<configVars, corsVars, httpVars>>

\* A timer armed by gracefulShutdown expires: process.exit(1)
Timeout ==
  /\ Alive
  /\ \E t \in timers : t <= clock
  /\ exitCode' = <<1>>
  /\ exitClock' = <<clock>>
  /\ UNCHANGED <<handle, connections, closeCallbacks, closeEmitted, serverCloseCalls,
                 poolState, poolEndCalls, poolEndLog, timers, clock, firstTrigger, faults>>
  /\ UNCHANGED <<configVars, corsVars, httpVars>>

\* Time passes, up to the next timer that is due
ClockTick ==
  /\ Alive
  /\ IF timers = {} THEN clock < MaxClock ELSE clock < Min(timers)
  /\ clock' = IF timers = {} \/ clock + TickMs <= Min(timers)
              THEN clock + TickMs ELSE Min(timers)
  /\ UNCHANGED <<handle, connections, closeCallbacks, closeEmitted, serverCloseCalls,
                 poolState, poolEndCalls, poolEndLog, timers, firstTrigger, exitCode,
                 exitClock, faults>>
  /\ UNCHANGED <<configVars, corsVars, httpVars>>

----------------------------------------------------------------------------
(* Initial states *)

NoCallback == [origin |-> Undefined, err |-> "none", allow |-> FALSE]

NoResponse == [stage |-> "none"]

HttpInit ==
  /\ globalHits = [c \in Clients |-> 0]
  /\ authHits = [c \in Clients |-> 0]
  /\ authInflight = <<>>
  /\ authFailed = [c \in Clients |-> 0]
  /\ authRejected = [c \in Clients |-> 0]
  /\ preflights = [c \in Clients |-> 0]
  /\ sessionRow = <<>>
  /\ lastTouch = 0
  /\ now = 0
  /\ last = NoResponse

ShutdownInit ==
  /\ handle = TRUE
  /\ connections = 0
  /\ closeCallbacks = 0
  /\ closeEmitted = 0
  /\ serverCloseCalls = 0
  /\ poolState = "open"
  /\ poolEndCalls = 0
  /\ poolEndLog = <<>>
  /\ timers = {}
  /\ clock = 0
  /\ firstTrigger = <<>>
  /\ exitCode = <<>>
  /\ exitClock = <<>>
  /\ faults = {}

----------------------------------------------------------------------------
(* The CORS gate on its own: the origin function applied to one origin *)

CorsInit ==
  /\ variant \in Variants
  /\ nodeEnv = "production"
  /\ allowedOriginsEnv \in EnvValues
  /\ corsCallback = NoCallback
  /\ HttpInit
  /\ ShutdownInit

\* cors calls options.origin(req.headers.origin, callback)
CorsCheck(origin) ==
  /\ corsCallback' = [origin |-> origin] @@ CorsOrigin(variant, allowedOriginsEnv, origin)
  /\ UNCHANGED <<configVars, httpVars, shutdownVars>>

CorsNext == \E origin \in Origins : CorsCheck(origin)

CorsSpec == CorsInit /\ [][CorsNext]_vars

\* C1: for every origin value, absent or any string, the origin callback
\* yields no error and allows exactly when the origin is absent, equals an
\* entry of the allow-list, or matches one of the patterns.
C1_AllowsIffAbsentListedOrPattern ==
  corsCallback.err # "none" =>
    /\ corsCallback.err = "null"
    /\ corsCallback.allow <=>
         \/ corsCallback.origin = Undefined
         \/ Includes(AllowedOrigins(variant, allowedOriginsEnv), corsCallback.origin)
         \/ MatchesPattern(variant, corsCallback.origin)

----------------------------------------------------------------------------
(* One rate-limit window of one client, with a second client beside it *)

\* Most requests the first client sends in the window (enough to pass GlobalMax)
MaxRequests == 101

\* Most requests the second client sends in the window
MaxOtherRequests == 1

\* Most OPTIONS requests one client sends in the window
MaxPreflights == 1

RequestBudget(c) == IF c = "c1" THEN MaxRequests ELSE MaxOtherRequests

WindowPaths == {<<"auth", "login">>, <<"nope">>}

WindowConfigs == {<<"session", "production">>, <<"jwt", "development">>}

WindowInit ==
  /\ \E cfg \in WindowConfigs : variant = cfg[1] /\ nodeEnv = cfg[2]
  /\ allowedOriginsEnv = Undefined
  /\ corsCallback = NoCallback
  /\ HttpInit
  /\ ShutdownInit

WindowNext ==
  \/ \E c \in Clients, p \in WindowPaths :
        preflights[c] < MaxPreflights /\ Preflight(c, p, Undefined)
  \/ \E c \in Clients, p \in WindowPaths, fault \in {"none", "body"} :
        globalHits[c] < RequestBudget(c) /\ Request(c, "GET", p, Undefined, FALSE, fault)
  \/ \E i \in 1..Len(authInflight) : AuthFinish(i, [kind |-> "ok"])

WindowSpec == WindowInit /\ [][WindowNext]_vars

\* C3 as stated: counting a client's requests of any method and path, the
\* 101st, when it is not an /auth request, is rejected by the global limiter,
\* and none of the first 100 is.
C3_HundredFirstOfAnyMethodRejected ==
  "nth" \in DOMAIN last =>
    /\ (last.nth = GlobalMax + 1 /\ ~IsAuthPath(last.path)) => last.stage = "globalLimiter"
    /\ last.nth <= GlobalMax => last.stage # "globalLimiter"

\* C3 amended: counting a client's requests other than OPTIONS, every one
\* after the 100th, auth or not, is rejected by the global limiter with
\* status 429 and the fixed message, and none of the first 100 is.
C3_HundredFirstChainRequestRejected ==
  /\ last.stage = "globalLimiter" =>
       /\ last.nthChain > GlobalMax
       /\ last.status = 429
       /\ last.body = [text |-> GlobalMessage(variant)]
  /\ ("nthChain" \in DOMAIN last /\ last.nthChain > GlobalMax) =>
       last.stage = "globalLimiter"

\* The 101st request of a client that also sent an OPTIONS request is rejected
C3_Witness ==
  /\ last.stage = "globalLimiter"
  /\ last.nthChain = GlobalMax + 1
  /\ last.nth > last.nthChain
  /\ ~IsAuthPath(last.path)

\* The fixed 404 envelope echoing the request
IsNotFoundEnvelope(resp) ==
  /\ resp.status = 404
  /\ resp.body.error = "Route non trouvée"
  /\ resp.body.path = resp.path
  /\ resp.body.method = resp.method

----------------------------------------------------------------------------
(* The auth limiter, with /auth requests in flight together *)

\* Most requests one client sends in the auth model
MaxAuthRequests == 12

AuthBudget(c) == IF c = "c1" THEN MaxAuthRequests ELSE MaxOtherRequests

AuthInit == WindowInit

AuthNext ==
  \/ \E c \in Clients :
        globalHits[c] < AuthBudget(c)
        /\ \E m \in {"GET", "POST"} : Request(c, m, <<"auth", "login">>, Undefined, FALSE, "none")
  \/ \E i \in 1..Len(authInflight), out \in RouteOutcomes :
        AuthFinish(i, out)

AuthSpec == AuthInit /\ [][AuthNext]_vars

\* C2 as stated: no more than 10 failed /auth requests pass the limiter in a
\* window, and successful requests never count: a request is rejected by the
\* auth limiter only when 10 failed attempts came before it.
C2_RejectedOnlyAfterTenFailures ==
  /\ \A c \in Clients : authFailed[c] <= AuthMax
  /\ last.stage = "authLimiter" =>
       authFailed[last.client] + authRejected[last.client] - 1 >= AuthMax

\* C2 amended: a successful request stops counting when its response
\* finishes and counts until then. The limiter's count is the /auth requests
\* of the window that failed, were rejected or are in flight; at most 10 that
\* fail or are in flight are let through, so the 11th consecutive failure is
\* rejected; and a rejection, with status 429 and the fixed message, happens
\* only with the count above 10.
C2_CountsFailedRejectedAndInflight ==
  /\ \A c \in Clients :
       /\ authHits[c] = authFailed[c] + authRejected[c] + InflightCount(c)
       /\ authFailed[c] + InflightCount(c) <= AuthMax
  /\ last.stage = "authLimiter" =>
       /\ authHits[last.client] > AuthMax
       /\ last.status = 429
       /\ last.body = [text |-> AuthMessage(variant)]

\* The 11th of 11 failed requests is rejected
C2_Witness ==
  /\ last.stage = "authLimiter"
  /\ authFailed[last.client] = AuthMax
  /\ authHits[last.client] = AuthMax + 1

----------------------------------------------------------------------------
(* The error middleware on its own *)

ErrorInit ==
  /\ variant \in Variants
  /\ nodeEnv \in NodeEnvs
  /\ allowedOriginsEnv = Undefined
  /\ corsCallback = NoCallback
  /\ HttpInit
  /\ ShutdownInit

ErrorNext == \E err \in ErrorObjects : TranslateError(err)

ErrorSpec == ErrorInit /\ [][ErrorNext]_vars

\* C7 as stated: the status is the error's status when present, else 500; in
\* production the body has the generic message and no stack; in development
\* it has the error's message and the stack; a stack only in development.
C7_StatusPresentAndStackInDevelopment ==
  last.stage = "error" =>
    /\ last.status = IF "status" \in DOMAIN last.err THEN last.err.status ELSE 500
    /\ nodeEnv = "production" =>
         last.body.error = "Erreur serveur interne" /\ "stack" \notin DOMAIN last.body
    /\ nodeEnv = "development" =>
         /\ "message" \in DOMAIN last.err
         /\ last.body.error = last.err.message
         /\ "stack" \in DOMAIN last.body
    /\ "stack" \in DOMAIN last.body => nodeEnv = "development"

\* C7 amended: the status is the error's status when present and not zero,
\* else 500; in production the body has the generic message and no stack; in
\* development it has the error's message and stack, each when the error
\* has one; a stack only in development.
C7_StatusTruthyAndStackWhenPresent ==
  last.stage = "error" =>
    /\ last.status = IF "status" \in DOMAIN last.err /\ last.err.status # 0
                     THEN last.err.status ELSE 500
    /\ nodeEnv = "production" =>
         last.body.error = "Erreur serveur interne" /\ "stack" \notin DOMAIN last.body
    /\ nodeEnv = "development" =>
         /\ "error" \in DOMAIN last.body <=> "message" \in DOMAIN last.err
         /\ "message" \in DOMAIN last.err => last.body.error = last.err.message
         /\ "stack" \in DOMAIN last.body <=> "stack" \in DOMAIN last.err
         /\ "stack" \in DOMAIN last.err => last.body.stack = last.err.stack
    /\ "stack" \in DOMAIN last.body => nodeEnv = "development"

C7_Witness ==
  /\ last.stage = "error"
  /\ nodeEnv = "development"
  /\ "stack" \in DOMAIN last.body
  /\ last.status = 404

----------------------------------------------------------------------------
(* The rolling session over days *)

\* Most requests the client sends between two clock steps
MaxSessionRequests == 2

SessionPaths == {<<"auth", "login">>, <<"menus">>}

SessionInit ==
  /\ variant = "session"
  /\ nodeEnv = "production"
  /\ allowedOriginsEnv = Undefined
  /\ corsCallback = NoCallback
  /\ HttpInit
  /\ ShutdownInit

SessionNext ==
  \/ Tick
  \/ \E p \in SessionPaths, cookie \in BOOLEAN, fault \in {"none", "body"} :
        globalHits["c1"] < MaxSessionRequests
        /\ Request("c1", "GET", p, Undefined, cookie, fault)
  \/ \E i \in 1..Len(authInflight),
        out \in {[kind |-> "login"], [kind |-> "logout"], [kind |-> "fail"]} :
        AuthFinish(i, out)

SessionSpec == SessionInit /\ [][SessionNext]_vars

\* The store still returns the session
SessionValid == sessionRow # <<>> /\ sessionRow[1] >= now

\* C9 as stated: every request that carries the cookie of a session still
\* valid on arrival leaves the session expiring 24 hours after that request.
C9_RefreshedByEveryRequestWithCookie ==
  (last.stage # "none" /\ last.cookie /\ last.hadSession
     /\ last.idle <= CookieMaxAgeHours /\ sessionRow # <<>>) =>
    sessionRow[1] = last.at + CookieMaxAgeHours

\* C9: the session's expiry is set to 24 hours after each request for which
\* the session middleware loaded the session (a request answered before that
\* middleware, by the global limiter or on a body-parsing failure, is none),
\* so the session is valid while the time since the last such request is at
\* most 24 hours and no longer valid after that.
C9_RollingExpiry ==
  /\ sessionRow # <<>> => sessionRow[1] = lastTouch + CookieMaxAgeHours
  /\ (last.stage # "none" /\ last.authenticated /\ sessionRow # <<>>) => lastTouch = last.at
  /\ SessionValid <=> (sessionRow # <<>> /\ now - lastTouch <= CookieMaxAgeHours)
  /\ (last.stage # "none" /\ last.cookie /\ last.fault = "none"
        /\ last.stage # "globalLimiter") =>
       (last.authenticated <=> (last.hadSession /\ last.idle <= CookieMaxAgeHours))

\* A request more than 24 hours after the clock started is authenticated
C9_Witness ==
  /\ last.stage # "none"
  /\ last.authenticated
  /\ last.idle > 0
  /\ last.at > CookieMaxAgeHours
  /\ SessionValid

----------------------------------------------------------------------------
(* Shutdown *)

ShutdownSpecInit ==
  /\ variant \in Variants
  /\ nodeEnv = "production"
  /\ allowedOriginsEnv = Undefined
  /\ corsCallback = NoCallback
  /\ HttpInit
  /\ ShutdownInit

ShutdownNext ==
  \/ Accept
  \/ Complete
  \/ \E sig \in {"SIGTERM", "SIGINT"} : Signal(sig)
  \/ UncaughtException
  \/ UnhandledRejection
  \/ PoolEnded
  \/ Timeout
  \/ ClockTick

ShutdownSpec == ShutdownSpecInit /\ [][ShutdownNext]_vars

\* The clock advances and a due timer fires
FairShutdownSpec == ShutdownSpec /\ WF_vars(ClockTick) /\ WF_vars(Timeout)

\* C4: every call of pool.end is made with the listener closed and no request
\* in flight, whatever the number and order of shutdown triggers.
C4_PoolEndsAfterDrain ==
  \A i \in 1..Len(poolEndLog) :
    ~poolEndLog[i].listening /\ poolEndLog[i].connections = 0

\* pool.end was called after triggers that found requests in flight
C4_Witness ==
  /\ poolEndCalls >= 1
  /\ serverCloseCalls >= 2
  /\ firstTrigger # <<>>
  /\ firstTrigger[1].connections > 0

C10_PoolEndedAndListenerClosedOnce == poolEndCalls <= 1 /\ serverCloseCalls <= 1

----------------------------------------------------------------------------
(* Preflights, with origins of every kind, before and past the global limit *)

\* Hits of the first client when the model starts: none, or the limit reached
PreflightStarts == {0, GlobalMax}

\* Most requests other than OPTIONS one client sends in the preflight model
MaxChainRequests == 1

PreflightPaths == {<<"auth", "login">>, <<"nope">>}

\* Origin header values of the preflights: absent, empty, listed when
\* ALLOWED_ORIGINS names it, matching a pattern, and matching nothing
PreflightOrigins ==
  { Undefined, <<>>, AppOrigin, AppOrigin \o <<"/">>,
    LocalhostPrefix \o <<"3", "0", "0", "0">>, LoopbackPrefix \o <<"8", "0", "a">> }
  \cup { VercelPrefix(v) \o VercelSuffix : v \in Variants }

PreflightInit ==
  /\ \E cfg \in WindowConfigs : variant = cfg[1] /\ nodeEnv = cfg[2]
  /\ allowedOriginsEnv \in EnvValues
  /\ corsCallback = NoCallback
  /\ \E n \in PreflightStarts : globalHits = [c \in Clients |-> IF c = "c1" THEN n ELSE 0]
  /\ authHits = [c \in Clients |-> 0]
  /\ authInflight = <<>>
  /\ authFailed = [c \in Clients |-> 0]
  /\ authRejected = [c \in Clients |-> 0]
  /\ preflights = [c \in Clients |-> 0]
  /\ sessionRow = <<>>
  /\ lastTouch = 0
  /\ now = 0
  /\ last = NoResponse
  /\ ShutdownInit

PreflightNext ==
  \/ \E c \in Clients, p \in PreflightPaths, origin \in PreflightOrigins :
        preflights[c] < MaxPreflights /\ Preflight(c, p, origin)
  \/ \E c \in Clients :
        (\E n \in PreflightStarts : globalHits[c] - n \in 0..(MaxChainRequests - 1))
        /\ Request(c, "GET", <<"nope">>, Undefined, FALSE, "none")

PreflightSpec == PreflightInit /\ [][PreflightNext]_vars

\* C11: every OPTIONS request is answered with status 204 by the CORS stage,
\* and the answer carries the four Access-Control-Allow-* headers exactly when
\* the allow/deny decision for other requests allows its origin.
C11_PreflightCarriesAllowHeadersIffAllowed ==
  ("method" \in DOMAIN last /\ last.method = "OPTIONS") =>
    /\ last.status = 204
    /\ last.stage \in {"cors", "options"}
    /\ AllowHeaderNames \subseteq last.headers.names
         <=> CorsOrigin(variant, allowedOriginsEnv, last.origin).allow

\* The part of C11 that holds: an OPTIONS request is answered 204 with an
\* empty body, by cors when the origin is allowed and by the explicit handler
\* otherwise, also past the global limit; a denied origin gets no header, an
\* allowed one gets the credentials, methods and headers headers, and
\* Access-Control-Allow-Origin only when the Origin header is not empty.
C11_PreflightAnsweredByCorsStage ==
  ("method" \in DOMAIN last /\ last.method = "OPTIONS") =>
    LET allow == CorsOrigin(variant, allowedOriginsEnv, last.origin).allow IN
    /\ last.status = 204
    /\ last.body = <<>>
    /\ last.stage = IF allow THEN "cors" ELSE "options"
    /\ ~allow => last.headers = NoHeaders
    /\ allow =>
         /\ AllowHeaderNames \ {"Access-Control-Allow-Origin"} \subseteq last.headers.names
         /\ "Access-Control-Allow-Origin" \in last.headers.names <=> ~Falsy(last.origin)
         /\ ~Falsy(last.origin) => last.headers.allowOrigin = last.origin

\* An OPTIONS request changes no limiter count and no session
C11_PreflightCountsNothing ==
  [][preflights' # preflights =>
       UNCHANGED <<globalHits, authHits, authInflight, authFailed, authRejected,
                   sessionRow, lastTouch>>]_vars

\* An OPTIONS request past the global limit, answered 204 without
\* Access-Control-Allow-Origin
C11_Witness ==
  /\ "method" \in DOMAIN last /\ last.method = "OPTIONS"
  /\ last.status = 204
  /\ globalHits[last.client] > GlobalMax
  /\ "Access-Control-Allow-Origin" \notin last.headers.names
  /\ "Access-Control-Allow-Methods" \in last.headers.names
====
